---- MODULE Spec2Model ----
(***************************************************************************)
(* MemoryLoom: the structured-output agent protocol (memoryloom/agent.py)  *)
(* and the SQLite-backed tiered memory store (memoryloom/sqlManager.py).   *)
(*                                                                         *)
(* Spec        one agent object: construction, generate, the retry loop.   *)
(* SpecExtract extract_json / validate_response applied to one raw text.   *)
(* SpecStore   the store: insert / update / delete / fetch_all and a       *)
(*             consolidation commit composed of them.                      *)
(* SpecRetrieval  rerank_api (memoryloom/retrieval.py) and the /retrieve   *)
(*             endpoint (api.py).                                          *)
(***************************************************************************)
EXTENDS Integers, Sequences, FiniteSets, TLC

VARIABLES
    registry,     \* names of the prompts present in the Langfuse prompt registry
    agent,        \* the constructed agent object (prompt_id: self.prompt_id, name: __prompt_id__,
                  \* found: init_prompt's lookup succeeded), NoAgent before construction
    registered,   \* name under which the last construction created a prompt, NoName if none
    pc,           \* "new" | "ready" | "calling" | "done" | "error"
    error,        \* exception that ended the last invocation: "none" | "template" | "client"
    tries,        \* call_llm: local variable tries
    output,       \* call_llm: local variable output
    calls,        \* number of llm.chat calls made by the current invocation
    generation,   \* Langfuse generation of the current invocation: "none" | "open" | "ended"
    firstGood,    \* history: index of the first attempt whose text was schema-conforming JSON, 0 if none
    allBad,       \* history: every response of this invocation was text without any conforming candidate
    text,         \* SpecExtract: the raw text under test
    candidates,   \* SpecExtract: result of extract_json(text)
    obj,          \* SpecExtract: result of validate_response(text)
    epc,          \* SpecExtract: "start" | "extracted" | "validated"
    disk,         \* SpecStore: the database as of the last commit
    conn,         \* SpecStore: the database as the connection sees it (uncommitted changes included)
    clock,        \* SpecStore: CURRENT_TIMESTAMP
    result,       \* SpecStore: outcome of the last call on the manager
    cpc,          \* SpecStore: consolidation pass: "idle" | "consolidating" | "summary_written"
    pending,      \* SpecStore: the consolidation pass in progress
    consumed,     \* SpecStore: ids of the short_memory rows marked consumed
    commits,      \* SpecStore: history of the consolidation commits started
    env,          \* SpecRetrieval: os.environ (RERANK_API, PROXY_URL), NULL when not set
    rpc,          \* SpecRetrieval: "idle" | "posted" (requests.post in flight)
    rcall,        \* SpecRetrieval: the last call, its arguments and what the endpoint did
    rout          \* SpecRetrieval: what the last call returned or raised

agentVars   == <<registry, agent, registered, pc, error, tries, output, calls,
                 generation, firstGood, allBad>>
extractVars == <<text, candidates, obj, epc>>
storeVars   == <<disk, conn, clock, result, cpc, pending, consumed, commits>>
retrievalVars == <<env, rpc, rcall, rout>>

-----------------------------------------------------------------------------
(* Values.  Python values are tagged with their type, so that a list is    *)
(* never mistaken for a str.                                               *)

None        == [type |-> "none", val |-> <<>>]
Str(s)      == [type |-> "str", val |-> s]
List(l)     == [type |-> "list", val |-> l]
Raised(e)   == [type |-> "raise", val |-> e]
Json(v)     == [type |-> "json", val |-> v]
Model(v)    == [type |-> "model", val |-> v]

(* Raw text is a sequence of tokens:                                       *)
(*   "F"  a fence ```            "L"  the word json                         *)
(*   "N"  a newline              "X"  commentary, not JSON                  *)
(*   "V"  a JSON object that conforms to the agent's response schema       *)
(*   "B"  a JSON object that does not conform, such as {"a":1}             *)
(*   "E"  an empty JSON value, such as {}                                  *)
Tokens      == {"F", "L", "N", "V", "B", "E", "X"}
JsonTokens  == {"V", "B", "E"}
MaxTextLen  == 3
MaxRawLen   == 5
TextsUpTo(n) == UNION {[1..k -> Tokens] : k \in 0..n}
\* the responses of the generation client, and the raw texts of SpecExtract
Texts       == TextsUpTo(MaxTextLen)
RawTexts    == TextsUpTo(MaxRawLen)

max_tries   == 3

-----------------------------------------------------------------------------
(* json.loads: leading and trailing whitespace is skipped, exactly one     *)
(* JSON value must remain.                                                 *)

RECURSIVE LStrip(_)
LStrip(s) == IF s # <<>> /\ Head(s) = "N" THEN LStrip(Tail(s)) ELSE s

RECURSIVE RStrip(_)
RStrip(s) == IF s # <<>> /\ s[Len(s)] = "N" THEN RStrip(SubSeq(s, 1, Len(s) - 1)) ELSE s

JsonLoads(s) ==
    LET core == RStrip(LStrip(s))
    IN  IF Len(core) = 1 /\ core[1] \in JsonTokens
        THEN Json(core[1])
        ELSE Raised("JSONDecodeError")

\* bool(value) of a decoded JSON value
Truthy(j) == j.val \in {"V", "B"}

-----------------------------------------------------------------------------
(* re.findall(r'```(?:json)?\s*\n?(.*?)\n?```', text, re.DOTALL)           *)

HasFence(s, i) == \E k \in i..Len(s) : s[k] = "F"

NextFence(s, i) == CHOOSE k \in i..Len(s) : s[k] = "F" /\ \A m \in i..(k - 1) : s[m] # "F"

SkipTag(s, i) == IF i <= Len(s) /\ s[i] = "L" THEN i + 1 ELSE i

RECURSIVE SkipWs(_, _)
SkipWs(s, i) == IF i <= Len(s) /\ s[i] = "N" THEN SkipWs(s, i + 1) ELSE i

RECURSIVE FindAll(_, _)
FindAll(s, i) ==
    IF i > Len(s) THEN <<>>
    ELSE IF s[i] # "F" \/ ~HasFence(s, i + 1) THEN FindAll(s, i + 1)
    ELSE LET b == SkipWs(s, SkipTag(s, i + 1))
             q == NextFence(s, b)
             e == IF q - 1 >= b /\ s[q - 1] = "N" THEN q - 2 ELSE q - 1
         IN  <<SubSeq(s, b, e)>> \o FindAll(s, q + 1)

-----------------------------------------------------------------------------
(* BaseAgent.extract_json, BaseAgent.validate_response                     *)

ExtractJson(s) ==
    LET j == JsonLoads(s)
    IN  IF j.type = "json" /\ Truthy(j)
        THEN List(<<s>>)
        ELSE List(FindAll(s, 1))

\* pydantic model_validate_json: the argument must be str/bytes holding JSON
\* that satisfies the model's fields.
ModelValidateJson(data) ==
    IF data.type # "str" THEN Raised("ValidationError")
    ELSE LET j == JsonLoads(data.val)
         IN  IF j.type = "json" /\ j.val = "V"
             THEN Model(j.val)
             ELSE Raised("ValidationError")

ValidateResponse(response) ==
    LET r == ModelValidateJson(ExtractJson(response))
    IN  IF r.type = "raise" THEN None ELSE r

-----------------------------------------------------------------------------
(* The store: SQLiteManager over one sqlite3 connection.                   *)

NULL     == "NULL"
Tables   == {"users", "short_memory", "day_memory", "week_memory",
             "month_memory", "year_memory", "long_memory"}
TierTables == {"day_memory", "week_memory", "month_memory", "year_memory"}

\* initialize_tables: the columns of each table
Columns(t) ==
    CASE t = "users" -> {"id", "user_id", "status", "created_at"}
      [] t \in {"short_memory", "long_memory"} -> {"id", "user_id", "content", "timestamp"}
      [] t = "day_memory" -> {"id", "user_id", "content", "date"}
      [] OTHER -> {"id", "user_id", "content", "streamline", "date"}

\* a schema whose streamline columns admit NULL
NotNullColumnsLax(t) ==
    IF t = "users" THEN {"user_id", "status"} ELSE {"user_id", "content"}

\* initialize_tables: the columns declared NOT NULL
NotNullColumns(t) ==
    CASE t = "users" -> {"user_id", "status"}
      [] t \in {"short_memory", "long_memory", "day_memory"} -> {"user_id", "content"}
      [] t \in {"week_memory", "month_memory"} -> {"user_id", "content", "streamline", "date"}
      [] OTHER -> {"user_id", "content", "streamline"}

\* a schema without UNIQUE columns
UniqueColumnsNone(t) == {}

\* initialize_tables: the columns declared UNIQUE
UniqueColumns(t) == IF t = "users" THEN {"user_id"} ELSE {}

\* initialize_tables: the DEFAULT of a column, NULL when it declares none
DefaultValue(c, now) ==
    CASE c = "status" -> "inactive"
      [] c \in {"created_at", "timestamp"} -> now
      [] OTHER -> NULL

\* a database: per table its rows in rowid order and its AUTOINCREMENT counter
EmptyDb == [rows |-> [t \in Tables |-> <<>>], seq |-> [t \in Tables |-> 0]]

\* rows: what fetch_all returned; condition: the condition of that call;
\* dirty: the connection held uncommitted changes when the call was made;
\* duplicate: the call would leave two users rows with one user_id;
\* changed: the table of the call is not what the connection showed before;
\* the other fields after value record facts about the call's arguments
\* and about the database when the call was made
NoResult  == [op |-> "none", table |-> "none", status |-> "none",
              value |-> 0, complete |-> FALSE, user_known |-> FALSE,
              period_taken |-> FALSE, rows_added |-> 0,
              rows |-> <<>>, condition |-> <<>>, streamline |-> FALSE,
              dirty |-> FALSE, duplicate |-> FALSE, changed |-> FALSE]
NoPending == [sid |-> 0, ids |-> {}, user |-> "none", period |-> "none"]

IdleStore ==
    /\ disk = EmptyDb
    /\ conn = EmptyDb
    /\ clock = 1
    /\ result = NoResult
    /\ cpc = "idle"
    /\ pending = NoPending
    /\ consumed = {}
    /\ commits = {}

\* a call record: answer is what the endpoint did with the request
NoCall == [op |-> "none", docs |-> <<>>, use_proxy |-> FALSE, topk |-> 0,
           answer |-> "none"]

IdleRetrieval ==
    /\ env = [RERANK_API |-> NULL, PROXY_URL |-> NULL]
    /\ rpc = "off"
    /\ rcall = NoCall
    /\ rout = None

-----------------------------------------------------------------------------
(* The agent object.                                                       *)

NoAgent     == [kind |-> "none", prompt_id |-> "none", name |-> "none", found |-> FALSE]
NoName      == "None"
AgentKinds  == {"record", "summary"}
Overrides   == {NoName, "custom"}

\* get_agent_name
GetAgentName(kind) == kind

\* cls_prompt: the name stored in __prompt_id__
ClsPromptId(kind) == IF kind = "record" THEN "record" ELSE "summmary"

\* prompt_settings: __prompt_id__ after the optional override
PromptSettings(kind, prompt_id) ==
    IF prompt_id = NoName THEN ClsPromptId(kind) ELSE prompt_id

\* langfuse_client.get_prompt(name) raises when the registry has no such prompt
GetPromptNeverRaises(reg, name) == FALSE
GetPromptRaises(reg, name) == name \notin reg

\* the while condition of call_llm
LoopContinuesOffByOne(t, out) == t <= max_tries /\ out = None
LoopContinues(t, out) == t < max_tries /\ out = None

\* What the generation client may answer (memoryloom.AlCaller is not part of
\* the sources): raw text, or a timeout error.
ChatOutcomes == Texts \cup {"timeout_error"}

\* text that is, as a whole, JSON conforming to the response schema
Conforming(s) == JsonLoads(s) = Json("V")

\* text with no usable candidate at all: neither the whole text nor any
\* fenced block is JSON conforming to the response schema
NoCandidate(s) ==
    /\ ~Conforming(s)
    /\ \A i \in 1..Len(FindAll(s, 1)) : ~Conforming(FindAll(s, 1)[i])

\* BaseAgent.__init__ (through RecordAgent / SummaryAgent): init_prompt
\* looks up self.prompt_id and, on failure, creates __prompt_id__.
Construct(kind, override) ==
    /\ pc \in {"new", "ready", "done", "error"}
    /\ LET name == GetAgentName(kind)
           pid  == PromptSettings(kind, override)
       IN  /\ agent' = [kind |-> kind, prompt_id |-> name, name |-> pid,
                         found |-> ~GetPromptRaises(registry, name)]
           /\ IF GetPromptRaises(registry, name)
              THEN registry' = registry \cup {pid} /\ registered' = pid
              ELSE registry' = registry /\ registered' = NoName
    /\ pc' = "ready"
    /\ error' = "none"
    /\ tries' = 0 /\ output' = None /\ calls' = 0
    /\ generation' = "none"
    /\ firstGood' = 0 /\ allBad' = TRUE
    /\ UNCHANGED <<extractVars, storeVars, retrievalVars>>

\* BaseAgent.generate up to the call of call_llm: resolve and compile the
\* template, open the Langfuse generation.
Generate ==
    /\ pc \in {"ready", "done", "error"}
    /\ tries' = 0 /\ output' = None /\ calls' = 0
    /\ firstGood' = 0 /\ allBad' = TRUE
    /\ IF GetPromptRaises(registry, agent.prompt_id)
       THEN pc' = "error" /\ error' = "template" /\ generation' = "none"
       ELSE pc' = "calling" /\ error' = "none" /\ generation' = "open"
    /\ UNCHANGED <<registry, agent, registered>>
    /\ UNCHANGED <<extractVars, storeVars, retrievalVars>>

\* One iteration of the while loop of call_llm, llm.chat returning text.
ChatText(response) ==
    /\ pc = "calling"
    /\ LoopContinues(tries, output)
    /\ output' = ValidateResponse(response)
    /\ tries' = tries + 1
    /\ calls' = calls + 1
    /\ firstGood' = IF firstGood = 0 /\ Conforming(response) THEN calls + 1 ELSE firstGood
    /\ allBad' = (allBad /\ NoCandidate(response))
    /\ UNCHANGED <<registry, agent, registered, pc, error, generation>>
    /\ UNCHANGED <<extractVars, storeVars, retrievalVars>>

\* One iteration of the while loop of call_llm, llm.chat raising: nothing
\* in call_llm or generate catches it.
ChatRaise ==
    /\ pc = "calling"
    /\ LoopContinues(tries, output)
    /\ "timeout_error" \in ChatOutcomes
    /\ calls' = calls + 1
    /\ pc' = "error"
    /\ error' = "client"
    /\ UNCHANGED <<registry, agent, registered, tries, output, generation, firstGood, allBad>>
    /\ UNCHANGED <<extractVars, storeVars, retrievalVars>>

\* The loop is left: call_llm returns output, generate ends the generation
\* and returns.
Return ==
    /\ pc = "calling"
    /\ ~LoopContinues(tries, output)
    /\ generation' = "ended"
    /\ pc' = "done"
    /\ UNCHANGED <<registry, agent, registered, error, tries, output, calls, firstGood, allBad>>
    /\ UNCHANGED <<extractVars, storeVars, retrievalVars>>

InitAgent ==
    /\ registry \in SUBSET {"record", "summary"}
    /\ agent = NoAgent
    /\ registered = NoName
    /\ pc = "new"
    /\ error = "none"
    /\ tries = 0 /\ output = None /\ calls = 0
    /\ generation = "none"
    /\ firstGood = 0 /\ allBad = TRUE

IdleExtract ==
    /\ text = <<>>
    /\ candidates = None
    /\ obj = None
    /\ epc = "idle"

Init == InitAgent /\ IdleExtract /\ IdleStore /\ IdleRetrieval

Next ==
    \/ \E kind \in AgentKinds, override \in Overrides : Construct(kind, override)
    \/ Generate
    \/ \E response \in Texts : ChatText(response)
    \/ ChatRaise
    \/ Return

vars == <<agentVars, extractVars, storeVars, retrievalVars>>

Spec == Init /\ [][Next]_vars

\* one step of the running invocation: llm.chat returns or raises, or the
\* loop exits
LoopStep == (\E response \in Texts : ChatText(response)) \/ ChatRaise \/ Return

\* an invocation that has started keeps running: llm.chat comes back and
\* the statements of call_llm follow one another
SpecFair == Spec /\ WF_vars(LoopStep)

-----------------------------------------------------------------------------
(* extract_json and validate_response applied to one raw text.             *)

IdleAgent ==
    /\ registry = {}
    /\ agent = NoAgent
    /\ registered = NoName
    /\ pc = "off"
    /\ error = "none"
    /\ tries = 0 /\ output = None /\ calls = 0
    /\ generation = "none"
    /\ firstGood = 0 /\ allBad = TRUE

InitExtract ==
    /\ text \in RawTexts
    /\ candidates = None
    /\ obj = None
    /\ epc = "start"
    /\ IdleAgent
    /\ IdleStore
    /\ IdleRetrieval

DoExtract ==
    /\ epc = "start"
    /\ candidates' = ExtractJson(text)
    /\ epc' = "extracted"
    /\ UNCHANGED <<text, obj>>
    /\ UNCHANGED <<agentVars, storeVars, retrievalVars>>

DoValidate ==
    /\ epc = "extracted"
    /\ obj' = ValidateResponse(text)
    /\ epc' = "validated"
    /\ UNCHANGED <<text, candidates>>
    /\ UNCHANGED <<agentVars, storeVars, retrievalVars>>

NextExtract == DoExtract \/ DoValidate

SpecExtract == InitExtract /\ [][NextExtract]_vars

-----------------------------------------------------------------------------
(* Properties of the agent protocol.                                       *)

\* C1: retry bound.  An invocation in which every response was text without
\* any conforming candidate returns after exactly max_tries = 3 calls of
\* llm.chat, and returns None.
C1_RetryBound ==
    (pc = "done" /\ allBad) => (calls = 3 /\ tries = max_tries /\ output = None)

C1_Witness == pc = "done" /\ allBad /\ calls = 3 /\ output = None

\* C2: success path.  When attempt k is the first whose text is JSON
\* conforming to the response schema, the invocation returns the model built
\* from that text and has made exactly k calls.
C2_SuccessPath ==
    (pc = "done" /\ firstGood > 0) => (output = Model("V") /\ calls = firstGood)

\* C5: transient failures never escape.  A failed or timed-out llm.chat
\* counts as one failed attempt: no invocation ends with the client's
\* exception, and one whose attempts all failed returns None.
C5_FailuresNeverRaise ==
    /\ error # "client"
    /\ (pc = "done" /\ firstGood = 0) => output = None

\* C8: after construction the name that generate resolves (self.prompt_id)
\* is in the registry: when the lookup found it, construction created
\* nothing; when it did not, construction created the prompt under that
\* same name.
C8_TemplateResolvable ==
    pc = "ready" =>
        /\ agent.prompt_id \in registry
        /\ registered = IF agent.found THEN NoName ELSE agent.prompt_id

\* C9: an invocation whose template is not in the registry ends with the
\* resolution error, without any llm.chat call and without any retry.
C9_TemplateFailureFatal ==
    (pc \in {"calling", "done", "error"} /\ agent.prompt_id \notin registry)
        => (pc = "error" /\ error = "template" /\ calls = 0 /\ tries = 0
            /\ output = None)

C9_Witness ==
    /\ pc = "error" /\ error = "template" /\ calls = 0
    /\ agent.prompt_id \notin registry

\* C17: attempt bound for every response sequence.  An invocation never
\* makes more llm.chat calls than max_tries, whatever the responses are,
\* and an invocation that is in the loop leaves it.
C17_AttemptBound ==
    /\ [](calls <= max_tries /\ tries <= max_tries)
    /\ (pc = "calling") ~> (pc \in {"done", "error"})

\* an invocation used all its attempts and returned
C17_Witness == pc = "done" /\ calls = max_tries /\ generation = "ended"

\* C21: every generation trace is closed.  Once an invocation has left
\* generate, by returning or by an exception, the Langfuse generation it
\* opened has been ended.
C21_TraceClosed == pc \in {"done", "error"} => generation # "open"

-----------------------------------------------------------------------------
(* Properties of extraction.                                               *)

\* the first candidate that parses as JSON, validated; None when no
\* candidate parses or the one that does fails validation
RECURSIVE FirstParsingValidated(_)
FirstParsingValidated(cands) ==
    IF cands = <<>> THEN None
    ELSE IF JsonLoads(Head(cands)).type = "json"
         THEN LET r == ModelValidateJson(Str(Head(cands)))
              IN  IF r.type = "raise" THEN None ELSE r
         ELSE FirstParsingValidated(Tail(cands))

\* C3: whole-text extraction.  For every raw text that json.loads accepts,
\* empty values included, extract_json yields exactly that text as the only
\* candidate (the fenced-block scan is not used).
C3_WholeTextExtraction ==
    (epc # "start" /\ JsonLoads(text).type = "json") => candidates = List(<<text>>)

\* C4: fenced-block extraction.  When the whole text is not JSON the
\* candidates are the fenced blocks' contents in order, and the result of
\* validation is that of the first candidate that parses as JSON.
C4_FencedBlockExtraction ==
    (epc = "validated" /\ JsonLoads(text).type = "raise") =>
        /\ candidates = List(FindAll(text, 1))
        /\ obj = FirstParsingValidated(candidates.val)

-----------------------------------------------------------------------------
(* Statements.  A statement applied to a database d yields the sqlite3     *)
(* error it raises ("none" when it succeeds), the database after it and    *)
(* the cursor's lastrowid / rowcount.                                      *)

MaxInserts == 2
UserIds    == {"u1", "u2"}
Periods    == {"p1"}
Times      == {1, 2}

Failed(e, d)        == [err |-> e, db |-> d, value |-> 0]
Succeeded(d, value) == [err |-> "none", db |-> d, value |-> value]

\* a WHERE clause joined with OR
MatchesAny(row, condition) ==
    DOMAIN condition = {} \/ \E c \in DOMAIN condition : row[c] = condition[c]

\* " AND ".join(f"{key} = ?"), or "1" for an empty condition
Matches(row, condition) == \A c \in DOMAIN condition : row[c] = condition[c]

Matching(rows, condition) == {i \in 1..Len(rows) : Matches(rows[i], condition)}

\* INSERT INTO t (columns) VALUES (?, ...)
SqlInsert(d, t, data, now) ==
    LET id  == d.seq[t] + 1
        row == [c \in Columns(t) |->
                   IF c = "id" THEN id
                   ELSE IF c \in DOMAIN data THEN data[c]
                   ELSE DefaultValue(c, now)]
    IN  IF DOMAIN data = {} \/ ~(DOMAIN data \subseteq Columns(t))
        THEN Failed("OperationalError", d)
        ELSE IF \E c \in NotNullColumns(t) : row[c] = NULL
        THEN Failed("IntegrityError", d)
        ELSE IF \E c \in UniqueColumns(t) :
                    \E i \in 1..Len(d.rows[t]) : d.rows[t][i][c] = row[c]
        THEN Failed("IntegrityError", d)
        ELSE Succeeded([rows |-> [d.rows EXCEPT ![t] = Append(@, row)],
                        seq  |-> [d.seq EXCEPT ![t] = id]], id)

\* UPDATE t SET c = ?, ... WHERE c = ? AND ...
SqlUpdate(d, t, data, condition) ==
    LET old == d.rows[t]
        hit == Matching(old, condition)
        new == [i \in 1..Len(old) |->
                   IF i \in hit
                   THEN [c \in Columns(t) |-> IF c \in DOMAIN data THEN data[c] ELSE old[i][c]]
                   ELSE old[i]]
    IN  IF \/ DOMAIN data = {}
           \/ ~(DOMAIN data \subseteq Columns(t))
           \/ ~(DOMAIN condition \subseteq Columns(t))
        THEN Failed("OperationalError", d)
        ELSE IF \E i \in hit : \E c \in NotNullColumns(t) : new[i][c] = NULL
        THEN Failed("IntegrityError", d)
        ELSE IF \E c \in UniqueColumns(t) \cap DOMAIN data :
                    \E i \in hit : \E j \in 1..Len(old) : i # j /\ new[i][c] = new[j][c]
        THEN Failed("IntegrityError", d)
        ELSE Succeeded([d EXCEPT !.rows[t] = new], Cardinality(hit))

\* DELETE FROM t WHERE c = ? AND ...
SqlDelete(d, t, condition) ==
    LET old == d.rows[t]
        hit == Matching(old, condition)
    IN  IF ~(DOMAIN condition \subseteq Columns(t))
        THEN Failed("OperationalError", d)
        ELSE Succeeded([d EXCEPT !.rows[t] =
                           SelectSeq(old, LAMBDA r : ~Matches(r, condition))],
                       Cardinality(hit))

\* SELECT * FROM t WHERE c = ? AND ...: no ORDER BY, the rows come in rowid
\* order
SqlSelect(d, t, condition) ==
    IF ~(DOMAIN condition \subseteq Columns(t))
    THEN Failed("OperationalError", d)
    ELSE [err |-> "none", db |-> d,
          value |-> SelectSeq(d.rows[t], LAMBDA r : Matches(r, condition))]

\* an execute that leaves the transaction as it is when the statement fails
ExecuteNoRollback(st, commit) ==
    IF st.err # "none"
    THEN conn' = conn /\ disk' = disk
    ELSE conn' = st.db /\ disk' = IF commit THEN st.db ELSE disk

\* SQLiteManager.execute for a statement that is not a SELECT: the statement
\* runs on the connection; commit when asked, roll back and raise
\* RuntimeError on sqlite3.Error.
Execute(st, commit) ==
    IF st.err # "none"
    THEN conn' = disk /\ disk' = disk
    ELSE conn' = st.db /\ disk' = IF commit THEN st.db ELSE disk

Status(st) == IF st.err = "none" THEN "ok" ELSE "RuntimeError"

-----------------------------------------------------------------------------
(* The calls on the manager.                                               *)

Inserted(d) ==
    d.seq["users"] + d.seq["short_memory"] + d.seq["day_memory"]
    + d.seq["week_memory"] + d.seq["month_memory"] + d.seq["year_memory"]
    + d.seq["long_memory"]

\* the call's arguments, recorded with its result: the data names only columns
\* of the table and gives every NOT NULL column without a default a value
Complete(t, data) ==
    /\ DOMAIN data \subseteq Columns(t)
    /\ \A c \in NotNullColumns(t) \ {"status"} : c \in DOMAIN data /\ data[c] # NULL

\* the user of the data is a row of users when the call is made
UserKnown(d, data) ==
    /\ "user_id" \in DOMAIN data
    /\ \E i \in 1..Len(d.rows["users"]) : d.rows["users"][i].user_id = data.user_id

\* the table holds a row for the data's (user, period) when the call is made
PeriodTaken(d, t, data) ==
    /\ {"user_id", "date"} \subseteq DOMAIN data
    /\ "date" \in Columns(t)
    /\ \E i \in 1..Len(d.rows[t]) :
           d.rows[t][i].user_id = data.user_id /\ d.rows[t][i].date = data.date

\* the update would leave two rows of users with the same user_id: it sets
\* user_id on two rows, or on a row to the user_id of a row it does not touch
WouldDuplicate(d, t, data, condition) ==
    /\ t = "users"
    /\ "user_id" \in DOMAIN data
    /\ LET hit == Matching(d.rows[t], condition)
       IN  \/ Cardinality(hit) >= 2
           \/ \E i \in hit : \E j \in (1..Len(d.rows[t])) \ hit :
                  d.rows[t][j].user_id = data.user_id

\* the data dictionaries handed to insert
InsertInputs(t) ==
    CASE t = "users" ->
           {[user_id |-> u] : u \in UserIds} \cup {[status |-> "active"]}
      [] t = "short_memory" ->
           {[user_id |-> u, content |-> "c"] : u \in UserIds}
           \cup {[user_id |-> "u1", content |-> "c", timestamp |-> ts] : ts \in Times}
           \cup {[user_id |-> "u1"]}
      [] t = "long_memory" ->
           {[user_id |-> "u1", content |-> "c"]}
      [] t = "day_memory" ->
           {[user_id |-> u, content |-> "c", date |-> p] : u \in UserIds, p \in Periods}
           \cup {[user_id |-> "u1", content |-> "c", streamline |-> "s", date |-> p] :
                    p \in Periods}
      [] OTHER ->
           {[user_id |-> "u1", content |-> "c", streamline |-> "s", date |-> p] :
               p \in Periods}
           \cup {[user_id |-> "u1", content |-> "c", date |-> p] : p \in Periods}

\* the tables update and execute are called on
Mutated == {"users", "short_memory"}

\* the tables update is called on
Updated == Mutated \cup {"week_memory"}

\* the data dictionaries handed to update
UpdateInputs(t) ==
    CASE t = "users" -> {[user_id |-> "u2"]}
      [] t = "week_memory" -> {[streamline |-> NULL]}
      [] OTHER -> {[content |-> "d"], [content |-> NULL]}

\* the condition dictionaries handed to update, delete and fetch_all
Conditions(t) ==
    IF t = "week_memory"
    THEN {<<>>}
    ELSE {<<>>, [user_id |-> "u1"], [user_id |-> "u1", id |-> 1]}

\* the tables fetch_all is called on
Fetched == {"short_memory"}

\* the tables delete is called on
Deleted == {"short_memory"}

\* SQLiteManager.insert
Insert(t, data) ==
    /\ cpc = "idle"
    /\ Inserted(conn) < MaxInserts
    /\ LET st == SqlInsert(conn, t, data, clock)
       IN  /\ Execute(st, TRUE)
           /\ result' = [op |-> "insert", table |-> t, dirty |-> conn # disk,
                         status |-> Status(st), value |-> st.value,
                         complete |-> Complete(t, data),
                         user_known |-> UserKnown(conn, data),
                         period_taken |-> PeriodTaken(conn, t, data),
                         rows_added |-> Len(st.db.rows[t]) - Len(conn.rows[t]),
                         streamline |-> /\ "streamline" \in DOMAIN data
                                        /\ data.streamline # NULL,
                         duplicate |-> t = "users" /\ UserKnown(conn, data),
                         changed |-> conn'.rows[t] # conn.rows[t]] @@ NoResult
    /\ UNCHANGED <<clock, cpc, pending, consumed, commits>>
    /\ UNCHANGED <<agentVars, extractVars, retrievalVars>>

\* the INSERT statements handed to execute with commit=False
UncommittedInputs(t) ==
    IF t = "users"
    THEN {[user_id |-> "u1"]}
    ELSE {[user_id |-> "u1", content |-> "c"]}

\* SQLiteManager.execute(sql, params, commit=False) with an INSERT statement
ExecuteUncommitted(t, data) ==
    /\ cpc = "idle"
    /\ Inserted(conn) < MaxInserts
    /\ LET st == SqlInsert(conn, t, data, clock)
       IN  /\ Execute(st, FALSE)
           /\ result' = [op |-> "execute", table |-> t, dirty |-> conn # disk,
                         status |-> Status(st), value |-> 0] @@ NoResult
    /\ UNCHANGED <<clock, cpc, pending, consumed, commits>>
    /\ UNCHANGED <<agentVars, extractVars, retrievalVars>>

\* SQLiteManager.update
Update(t, data, condition) ==
    /\ cpc = "idle"
    /\ LET st == SqlUpdate(conn, t, data, condition)
       IN  /\ Execute(st, TRUE)
           /\ result' = [op |-> "update", table |-> t, dirty |-> conn # disk,
                         status |-> Status(st), value |-> st.value,
                         complete |-> FALSE, user_known |-> FALSE,
                         period_taken |-> FALSE,
                         rows_added |-> 0,
                         duplicate |-> WouldDuplicate(conn, t, data, condition),
                         changed |-> conn'.rows[t] # conn.rows[t]] @@ NoResult
    /\ UNCHANGED <<clock, cpc, pending, consumed, commits>>
    /\ UNCHANGED <<agentVars, extractVars, retrievalVars>>

\* SQLiteManager.delete
Delete(t, condition) ==
    /\ cpc = "idle"
    /\ LET st == SqlDelete(conn, t, condition)
       IN  /\ Execute(st, TRUE)
           /\ result' = [op |-> "delete", table |-> t, dirty |-> conn # disk,
                         status |-> Status(st), value |-> st.value,
                         complete |-> FALSE, user_known |-> FALSE,
                         period_taken |-> FALSE,
                         rows_added |-> Len(st.db.rows[t]) - Len(conn.rows[t])] @@ NoResult
    /\ UNCHANGED <<clock, cpc, pending, consumed, commits>>
    /\ UNCHANGED <<agentVars, extractVars, retrievalVars>>

\* SQLiteManager.fetch_all: execute returns cursor.fetchall() for a SELECT
\* (without committing), rolls back and raises on sqlite3.Error
FetchAll(t, condition) ==
    /\ cpc = "idle"
    /\ LET st == SqlSelect(conn, t, condition)
       IN  /\ Execute(st, FALSE)
           /\ result' = [op |-> "select", table |-> t, dirty |-> conn # disk, status |-> Status(st),
                         rows |-> IF st.err = "none" THEN st.value ELSE <<>>,
                         condition |-> condition] @@ NoResult
    /\ UNCHANGED <<clock, cpc, pending, consumed, commits>>
    /\ UNCHANGED <<agentVars, extractVars, retrievalVars>>

\* CURRENT_TIMESTAMP advances
Tick ==
    /\ clock + 1 \in Times
    /\ clock' = clock + 1
    /\ UNCHANGED <<disk, conn, result, cpc, pending, consumed, commits>>
    /\ UNCHANGED <<agentVars, extractVars, retrievalVars>>

-----------------------------------------------------------------------------
(* A scheduler pass for the day tier: Idle -> Consolidating -> (the agent   *)
(* returns a result) Committing -> Idle, or Consolidating -> (the agent    *)
(* returns no result) Idle.  commit_consolidation is composed of the       *)
(* manager's calls: insert the summary row, then mark the input rows       *)
(* consumed.  Each call of the manager commits on its own.                 *)

Unconsumed(d, u) ==
    {d.rows["short_memory"][i].id : i \in Matching(d.rows["short_memory"], [user_id |-> u])}
        \ consumed

\* Idle -> Consolidating: the bucket has unconsumed input; the agent is
\* invoked on it
StartPass(u, p) ==
    /\ cpc = "idle"
    /\ Unconsumed(conn, u) # {}
    /\ cpc' = "consolidating"
    /\ pending' = [sid |-> 0, ids |-> Unconsumed(conn, u), user |-> u, period |-> p]
    /\ UNCHANGED <<disk, conn, clock, result, consumed, commits>>
    /\ UNCHANGED <<agentVars, extractVars, retrievalVars>>

\* a pass that treats the inputs of a failed bucket as consumed
AgentNoResultConsumes ==
    /\ cpc = "consolidating"
    /\ cpc' = "idle"
    /\ consumed' = consumed \cup pending.ids
    /\ pending' = NoPending
    /\ result' = [op |-> "consolidate", table |-> "day_memory",
                  status |-> "no_result"] @@ NoResult
    /\ UNCHANGED <<disk, conn, clock, commits>>
    /\ UNCHANGED <<agentVars, extractVars, retrievalVars>>

\* Consolidating -> Idle: the agent returned None
AgentNoResult ==
    /\ cpc = "consolidating"
    /\ cpc' = "idle"
    /\ pending' = NoPending
    /\ result' = [op |-> "consolidate", table |-> "day_memory",
                  status |-> "no_result"] @@ NoResult
    /\ UNCHANGED <<disk, conn, clock, consumed, commits>>
    /\ UNCHANGED <<agentVars, extractVars, retrievalVars>>

\* Consolidating -> Committing: the agent returned a summary, its row is
\* inserted
WriteSummary(u, p) ==
    /\ cpc = "consolidating"
    /\ pending.user = u /\ pending.period = p
    /\ Inserted(conn) < MaxInserts
    /\ LET data == [user_id |-> u, content |-> "c", date |-> p]
           st   == SqlInsert(conn, "day_memory", data, clock)
       IN  /\ st.err = "none"
           /\ Execute(st, TRUE)
           /\ result' = [op |-> "insert", table |-> "day_memory", dirty |-> conn # disk,
                         status |-> Status(st), value |-> st.value,
                         complete |-> Complete("day_memory", data),
                         user_known |-> UserKnown(conn, data),
                         period_taken |-> PeriodTaken(conn, "day_memory", data),
                         rows_added |-> 1] @@ NoResult
           /\ pending' = [pending EXCEPT !.sid = st.value]
           /\ commits' = commits \cup {pending'}
    /\ cpc' = "summary_written"
    /\ UNCHANGED <<clock, consumed>>
    /\ UNCHANGED <<agentVars, extractVars, retrievalVars>>

MarkConsumed ==
    /\ cpc = "summary_written"
    /\ consumed' = consumed \cup pending.ids
    /\ cpc' = "idle"
    /\ pending' = NoPending
    /\ UNCHANGED <<disk, conn, clock, result, commits>>
    /\ UNCHANGED <<agentVars, extractVars, retrievalVars>>

\* the pass is abandoned, or fails, between the two writes
Abandon ==
    /\ cpc = "summary_written"
    /\ cpc' = "idle"
    /\ pending' = NoPending
    /\ UNCHANGED <<disk, conn, clock, result, consumed, commits>>
    /\ UNCHANGED <<agentVars, extractVars, retrievalVars>>

InitStore == IdleAgent /\ IdleExtract /\ IdleStore /\ IdleRetrieval

NextStore ==
    \/ \E t \in Tables : \E data \in InsertInputs(t) : Insert(t, data)
    \/ \E t \in Mutated : \E data \in UncommittedInputs(t) : ExecuteUncommitted(t, data)
    \/ \E t \in Updated : \E data \in UpdateInputs(t) : \E condition \in Conditions(t) :
           Update(t, data, condition)
    \/ \E t \in Deleted : \E condition \in Conditions(t) : Delete(t, condition)
    \/ \E t \in Fetched : \E condition \in Conditions(t) : FetchAll(t, condition)
    \/ Tick
    \/ \E u \in UserIds, p \in Periods : StartPass(u, p)
    \/ AgentNoResult
    \/ \E u \in UserIds, p \in Periods : WriteSummary(u, p)
    \/ MarkConsumed
    \/ Abandon

SpecStore == InitStore /\ [][NextStore]_vars

-----------------------------------------------------------------------------
(* Properties of the store.                                                *)

SummaryPresent(d, sid) ==
    \E i \in 1..Len(d.rows["day_memory"]) : d.rows["day_memory"][i].id = sid

C7_SummaryUnique ==
    /\ \A t \in TierTables :
           \A i, j \in 1..Len(disk.rows[t]) :
               i # j => ~(/\ disk.rows[t][i].user_id = disk.rows[t][j].user_id
                          /\ disk.rows[t][i].date = disk.rows[t][j].date)
    /\ (result.op = "insert" /\ result.table \in TierTables /\ result.period_taken)
           => (result.status = "RuntimeError" /\ result.rows_added = 0)

\* C10: append_record.  An insert of (user_id, content) into short_memory
\* succeeds and returns the new row's id when the user is a row of users;
\* when the user is not, it fails and adds no row.
C10_AppendRecord ==
    (result.op = "insert" /\ result.table = "short_memory" /\ result.complete) =>
        IF result.user_known
        THEN /\ result.status = "ok"
             /\ result.rows_added = 1
             /\ result.value = disk.seq["short_memory"]
        ELSE /\ result.status = "RuntimeError"
             /\ result.rows_added = 0

\* C11: fetch ordering.  fetch_all of one user's short_memory rows succeeds
\* (with an empty sequence when nothing matches) and returns the rows in
\* ascending order of their timestamp.
C11_FetchOrdered ==
    (/\ result.op = "select"
     /\ result.table = "short_memory"
     /\ DOMAIN result.condition = {"user_id"}) =>
        /\ result.status = "ok"
        /\ \A i, j \in 1..Len(result.rows) :
               i < j => result.rows[i].timestamp <= result.rows[j].timestamp

\* The ids of the committed short_memory rows
RecordIds(d) == {d.rows["short_memory"][i].id : i \in 1..Len(d.rows["short_memory"])}

\* C12: records are never destroyed.  A short_memory row that exists is
\* still there after every step of the store, consumed or not.
C12_RecordsKept == [][RecordIds(disk) \subseteq RecordIds(disk')]_vars

\* the tables whose rows have a streamline column
StreamlineTables == {"week_memory", "month_memory", "year_memory"}

C18_FailedStatementNoEffect ==
    [][result'.status = "RuntimeError" => (disk' = disk /\ conn' = disk)]_vars

\* a statement failed while uncommitted changes were pending, and they
\* were discarded
C18_Witness ==
    /\ result.status = "RuntimeError"
    /\ result.dirty
    /\ conn = disk

\* C19: user identity is unique.  No two rows of users share a user_id,
\* and an insert or update on users that would create a duplicate raises;
\* made when nothing is uncommitted, as after any insert or update, it
\* leaves the users table as it was.
C19_UserIdUnique ==
    /\ \A d \in {disk, conn} :
           \A i, j \in 1..Len(d.rows["users"]) :
               d.rows["users"][i].user_id = d.rows["users"][j].user_id => i = j
    /\ (/\ result.op \in {"insert", "update"}
        /\ result.table = "users"
        /\ result.duplicate) =>
           /\ result.status = "RuntimeError"
           /\ ~result.dirty => ~result.changed

\* an update that would give a second row the user_id of another was refused
C19_Witness ==
    /\ result.op = "update"
    /\ result.table = "users"
    /\ result.duplicate
    /\ result.status = "RuntimeError"
    /\ ~result.dirty
    /\ Len(disk.rows["users"]) = 2

\* the rows of a table whose columns equal every pair of the condition
Hit(rows, condition) ==
    {i \in 1..Len(rows) : \A c \in DOMAIN condition : rows[i][c] = condition[c]}

\* the step returned the number of rows of t that the condition selects
\* (all of them for an empty condition) and left every other table as the
\* connection showed it
CountAndOthers(t, condition) ==
    /\ result'.value = Cardinality(Hit(conn.rows[t], condition))
    /\ condition = <<>> => result'.value = Len(conn.rows[t])
    /\ \A u \in Tables \ {t} : conn'.rows[u] = conn.rows[u]

\* the step gave the selected rows of t the data and kept the other rows
UpdateFrame(t, data, condition) ==
    LET old == conn.rows[t]
        new == conn'.rows[t]
    IN  /\ CountAndOthers(t, condition)
        /\ Len(new) = Len(old)
        /\ \A i \in 1..Len(old) :
               IF i \in Hit(old, condition)
               THEN \A c \in DOMAIN old[i] :
                        new[i][c] = IF c \in DOMAIN data THEN data[c] ELSE old[i][c]
               ELSE new[i] = old[i]

\* the step removed the selected rows of t and kept the other rows
DeleteFrame(t, condition) ==
    LET old == conn.rows[t]
        new == conn'.rows[t]
        hit == Hit(old, condition)
    IN  /\ CountAndOthers(t, condition)
        /\ Len(new) = Len(old) - Cardinality(hit)
        /\ {new[i] : i \in 1..Len(new)} = {old[i] : i \in (1..Len(old)) \ hit}

\* C20: frame of update and delete.  Every step that is an update or a
\* delete which returns has returned the number of rows of its table whose
\* columns equal every pair of the condition (all rows for an empty
\* condition); update gave exactly those rows the data and delete removed
\* exactly them; every other row of the table and every other table is as
\* before.  (Each line reads: the frame holds, or the step is not that call.)
C20_UpdateDeleteFrame ==
    [][(result'.op \in {"update", "delete"} /\ result'.status = "ok") =>
         LET t == result'.table
         IN  \A condition \in Conditions(t) :
                 /\ \A data \in UpdateInputs(t) :
                        \/ UpdateFrame(t, data, condition)
                        \/ ~(result'.op = "update" /\ Update(t, data, condition))
                 /\ \/ DeleteFrame(t, condition)
                    \/ ~(result'.op = "delete" /\ Delete(t, condition))]_vars

\* a delete removed one of two records, kept the other and returned 1
C20_Witness ==
    /\ result.op = "delete"
    /\ result.table = "short_memory"
    /\ result.status = "ok"
    /\ result.value = 1
    /\ Len(conn.rows["short_memory"]) = 1
    /\ conn.seq["short_memory"] = 2

-----------------------------------------------------------------------------
(* rerank_api and the /retrieve endpoint.                                  *)

MaxDocs == 2
MaxTopK == 2
Docs    == {"d1", "d2"}

\* the docs argument: a list of texts
DocLists == UNION {[1..n -> Docs] : n \in 0..MaxDocs}

\* a ranking of n texts: their indices in order of relevance
Rankings(n) == {r \in [1..n -> 1..n] : \A i, j \in 1..n : r[i] = r[j] => i = j}

\* what the endpoint sends back: its status and its body
Answers(n) ==
    {[status |-> 200, kind |-> "ranking", order |-> r] : r \in Rankings(n)}
    \cup {[status |-> 500, kind |-> k, order |-> <<>>] : k \in {"error_json", "text"}}

\* response.json(): the parsed body whatever the status, an exception when
\* the body is not JSON
ResponseJson(answer) ==
    IF answer.kind = "text" THEN Raised("JSONDecodeError") ELSE Json(answer)

\* the fields MemoryResponse declares, none with a default
MemoryResponseFields == {"records", "longterm", "summary"}

\* MemoryResponse(**kwargs): pydantic validates the keyword arguments
MemoryResponse(kwargs) ==
    IF MemoryResponseFields \subseteq DOMAIN kwargs
    THEN Model([f \in MemoryResponseFields |-> kwargs[f]])
    ELSE Raised("ValidationError")

\* rerank_api up to requests.post
RerankApi(docs, use_proxy) ==
    /\ rpc = "idle"
    /\ rcall' = [NoCall EXCEPT !.op = "rerank", !.docs = docs, !.use_proxy = use_proxy]
    /\ IF env.RERANK_API = NULL
       THEN rout' = Raised("RERANK_API is not set") /\ rpc' = "idle"
       ELSE IF use_proxy /\ env.PROXY_URL = NULL
       THEN rout' = Raised("PROXY_URL is not set") /\ rpc' = "idle"
       ELSE rout' = None /\ rpc' = "posted"
    /\ UNCHANGED env
    /\ UNCHANGED <<agentVars, extractVars, storeVars>>

\* requests.post raises: the endpoint cannot be reached
PostFails ==
    /\ rpc = "posted"
    /\ rcall' = [rcall EXCEPT !.answer = "unreachable"]
    /\ rout' = Raised("ConnectionError")
    /\ rpc' = "idle"
    /\ UNCHANGED env
    /\ UNCHANGED <<agentVars, extractVars, storeVars>>

\* requests.post returns a response; rerank_api returns response.json()
PostAnswers(answer) ==
    /\ rpc = "posted"
    /\ rcall' = [rcall EXCEPT !.answer = IF answer.status = 200 THEN "ok" ELSE "error_status"]
    /\ rout' = ResponseJson(answer)
    /\ rpc' = "idle"
    /\ UNCHANGED env
    /\ UNCHANGED <<agentVars, extractVars, storeVars>>

\* smart_retrieve
SmartRetrieve(topk) ==
    /\ rpc = "idle"
    /\ rcall' = [NoCall EXCEPT !.op = "retrieve", !.topk = topk]
    /\ rout' = MemoryResponse([results |-> <<>>])
    /\ UNCHANGED <<env, rpc>>
    /\ UNCHANGED <<agentVars, extractVars, storeVars>>

InitRetrieval ==
    /\ env \in [RERANK_API : {NULL, "url"}, PROXY_URL : {NULL, "proxy"}]
    /\ rpc = "idle"
    /\ rcall = NoCall
    /\ rout = None
    /\ IdleAgent /\ IdleExtract /\ IdleStore

NextRetrieval ==
    \/ \E docs \in DocLists, use_proxy \in BOOLEAN : RerankApi(docs, use_proxy)
    \/ PostFails
    \/ \E answer \in Answers(Len(rcall.docs)) : PostAnswers(answer)
    \/ \E topk \in 0..MaxTopK : SmartRetrieve(topk)

SpecRetrieval == InitRetrieval /\ [][NextRetrieval]_vars

-----------------------------------------------------------------------------
(* Properties of retrieval.                                                *)

\* the oracle is unavailable to the call
Unavailable ==
    \/ env.RERANK_API = NULL
    \/ rcall.use_proxy /\ env.PROXY_URL = NULL
    \/ rcall.answer \in {"unreachable", "error_status"}

\* C14: the oracle fails explicitly.  A finished rerank_api call returned a
\* value only if the endpoint answered with a ranking, and raised whenever
\* the oracle was unavailable: endpoint or requested proxy not configured,
\* endpoint unreachable, or endpoint answering with an error status.
C14_OracleFailsExplicitly ==
    (rcall.op = "rerank" /\ rpc = "idle") =>
        /\ rout.type # "raise" => rcall.answer = "ok"
        /\ Unavailable => rout.type = "raise"

\* the errors rerank_api raises
OracleErrors == {"RERANK_API is not set", "PROXY_URL is not set",
                 "ConnectionError", "JSONDecodeError"}

\* C15: retrieval response shape.  A finished /retrieve call either raised
\* an error of the oracle or returned a response whose records, longterm
\* and summary lists each hold at most topk items.
C15_RetrieveShape ==
    (rcall.op = "retrieve" /\ rpc = "idle") =>
        \/ rout.type = "raise" /\ rout.val \in OracleErrors
        \/ /\ rout.type = "model"
           /\ \A f \in MemoryResponseFields : Len(rout.val[f]) <= rcall.topk

====
